---------------------------- MODULE Spec2Model ----------------------------
(***************************************************************************)
(* Betweenness centrality (Brandes) with sequential / parallel dispatch    *)
(* and a lock-guarded accumulator (src/src/centrality.rs), and the         *)
(* connected-components traversal                                          *)
(* (src/retworkx-core/src/connectivity/conn_components.rs).                *)
(*                                                                         *)
(* f64 values are modelled as exact rationals <<num, den>> in lowest terms *)
(* with den > 0: every statement below is about the mathematical value of  *)
(* the floating-point expression, rounding is not modelled.                *)
(***************************************************************************)
EXTENDS Integers, Sequences, FiniteSets, TLC

(***************************************************************************)
(* Bounds of the explored inputs.                                          *)
(***************************************************************************)
MaxBound == 3

MaxEdges == 2

MaxLeaves == 3

\* The values of parallel_threshold tried: with up to MaxBound nodes both
\* dispatch modes occur, and a node count equal to the threshold occurs.
Thresholds == {2, 4}

(***************************************************************************)
(* Exact arithmetic standing for f64.                                      *)
(***************************************************************************)
Abs(n) == IF n < 0 THEN -n ELSE n

RECURSIVE Gcd(_, _)
Gcd(a, b) == IF b = 0 THEN a ELSE Gcd(b, a % b)

QNorm(n, d) ==
    LET g == Gcd(Abs(n), Abs(d))
        s == IF d < 0 THEN -1 ELSE 1
    IN  <<(s * n) \div g, (s * d) \div g>>

Q(n) == <<n, 1>>

QAdd(a, b) == QNorm(a[1] * b[2] + b[1] * a[2], a[2] * b[2])

QMul(a, b) == QNorm(a[1] * b[1], a[2] * b[2])

QDiv(a, b) == QNorm(a[1] * b[2], a[2] * b[1])

QLe(a, b) == a[1] * b[2] <= b[1] * a[2]

(***************************************************************************)
(* Option<f64>: None, or the value itself for Some(value).                 *)
(***************************************************************************)
None == "None"

(***************************************************************************)
(* Sequence helpers.                                                       *)
(***************************************************************************)
Reverse(s) == [i \in 1..Len(s) |-> s[Len(s) + 1 - i]]

RECURSIVE SortedSeq(_)
SortedSeq(S) ==
    IF S = {} THEN <<>>
    ELSE LET m == CHOOSE x \in S : \A y \in S : x <= y
         IN  <<m>> \o SortedSeq(S \ {m})

SeqsUpTo(S, n) == UNION {[1..k -> S] : k \in 0..n}

Range(s) == {s[i] : i \in 1..Len(s)}

(***************************************************************************)
(* The graph capability interface.  A graph is a record                    *)
(*   live     : the indices of the existing nodes,                         *)
(*   directed : the directedness flag,                                     *)
(*   edges    : the existing edges <<a, b>> in insertion order (parallel   *)
(*              edges and self-loops allowed).                             *)
(***************************************************************************)
node_bound(g) ==
    IF g.live = {} THEN 0 ELSE (CHOOSE m \in g.live : \A x \in g.live : x <= m) + 1

node_count(g) == Cardinality(g.live)

node_identifiers(g) == SortedSeq(g.live)

\* Outgoing edge list first (most recently added edge first), then, for an
\* undirected graph, the incoming edge list with self-loops skipped.
neighbors(g, v) ==
    LET out == SelectSeq(g.edges, LAMBDA e : e[1] = v)
        inc == SelectSeq(g.edges, LAMBDA e : e[2] = v /\ e[1] # v)
        outN == [i \in 1..Len(out) |-> out[Len(out) + 1 - i][2]]
        incN == [i \in 1..Len(inc) |-> inc[Len(inc) + 1 - i][1]]
    IN  IF g.directed THEN outN ELSE outN \o incN

\* Every graph with at most MaxBound index slots and at most MaxEdges edges.
BoundedGraphs ==
    UNION {{[live |-> L, directed |-> d, edges |-> es] :
              d \in BOOLEAN, es \in SeqsUpTo(L \X L, MaxEdges)} :
           L \in SUBSET (0..(MaxBound - 1))}

\* Larger inputs with several shortest paths between a pair of nodes: the
\* diamond 0-1-3 / 0-2-3, the diamond with the edge (0,1) doubled, and the
\* diamond on the indices {0,1,3,4} of a graph whose node 2 was removed.
SampleGraphs ==
    {[live |-> L, directed |-> d, edges |-> es] :
        d \in BOOLEAN,
        L \in {{0, 1, 2, 3}},
        es \in {<<<<0, 1>>, <<0, 2>>, <<1, 3>>, <<2, 3>>>>,
                <<<<0, 1>>, <<0, 2>>, <<1, 3>>, <<2, 3>>, <<0, 1>>>>}}
    \cup
    {[live |-> {0, 1, 3, 4}, directed |-> d,
      edges |-> <<<<0, 1>>, <<0, 3>>, <<1, 4>>, <<3, 4>>>>] : d \in BOOLEAN}

Graphs == BoundedGraphs \cup SampleGraphs

\* The undirected star on the indices 0..k with centre c: one edge per leaf,
\* added in index order, written centre-first or leaf-first.
Star(k, c, centre_first) ==
    [live |-> 0..k, directed |-> FALSE,
     edges |-> [i \in 1..k |->
                  LET leaf == IF i <= c THEN i - 1 ELSE i
                  IN  IF centre_first THEN <<c, leaf>> ELSE <<leaf, c>>]]

\* The stars with up to MaxLeaves leaves whose centre has the lowest or the
\* highest index.
StarGraphs ==
    UNION {{Star(k, c, f) : c \in {0, k}, f \in BOOLEAN} : k \in 0..MaxLeaves}

(***************************************************************************)
(* shortest_path_for_centrality: BFS from node_s counting shortest paths.  *)
(* The loop state is [Q, verts, distance, sigma, predecessors].            *)
(***************************************************************************)
\* Mutant: only the parent that first discovers w is recorded, a later edge
\* at the same distance adds neither a predecessor nor its path count.
RECURSIVE sp_neighbor_loop_first_parent(_, _, _, _)
sp_neighbor_loop_first_parent(st, v, ns, i) ==
    IF i > Len(ns) THEN st
    ELSE LET w == ns[i]
             distance_v == st.distance[v]
             fresh == st.distance[w] < 0
         IN  sp_neighbor_loop_first_parent(
                 IF fresh
                 THEN [st EXCEPT !.Q = Append(@, w),
                                 !.distance = [@ EXCEPT ![w] = distance_v + 1],
                                 !.sigma = [@ EXCEPT ![w] = QAdd(@, st.sigma[v])],
                                 !.predecessors = [@ EXCEPT ![w] = Append(@, v)]]
                 ELSE st,
                 v, ns, i + 1)

\* Mutant: the path count of w is increased only when w is first discovered,
\* the predecessor is recorded for every on-path edge.
RECURSIVE sp_neighbor_loop_sigma_on_discovery(_, _, _, _)
sp_neighbor_loop_sigma_on_discovery(st, v, ns, i) ==
    IF i > Len(ns) THEN st
    ELSE LET w == ns[i]
             distance_v == st.distance[v]
             fresh == st.distance[w] < 0
             Q1 == IF fresh THEN Append(st.Q, w) ELSE st.Q
             d1 == IF fresh THEN [st.distance EXCEPT ![w] = distance_v + 1]
                   ELSE st.distance
             onpath == d1[w] = distance_v + 1
             s1 == IF fresh
                   THEN [st.sigma EXCEPT ![w] = QAdd(st.sigma[w], st.sigma[v])]
                   ELSE st.sigma
             p1 == IF onpath
                   THEN [st.predecessors EXCEPT ![w] = Append(@, v)]
                   ELSE st.predecessors
         IN  sp_neighbor_loop_sigma_on_discovery(
                 [st EXCEPT !.Q = Q1, !.distance = d1,
                            !.sigma = s1, !.predecessors = p1],
                 v, ns, i + 1)

\* Mutant: w is pushed to the queue for every edge that puts it at distance
\* distance_v + 1, not only when it is first discovered.
RECURSIVE sp_neighbor_loop_enqueue_on_path(_, _, _, _)
sp_neighbor_loop_enqueue_on_path(st, v, ns, i) ==
    IF i > Len(ns) THEN st
    ELSE LET w == ns[i]
             distance_v == st.distance[v]
             fresh == st.distance[w] < 0
             d1 == IF fresh THEN [st.distance EXCEPT ![w] = distance_v + 1]
                   ELSE st.distance
             onpath == d1[w] = distance_v + 1
             Q1 == IF onpath THEN Append(st.Q, w) ELSE st.Q
             s1 == IF onpath
                   THEN [st.sigma EXCEPT ![w] = QAdd(st.sigma[w], st.sigma[v])]
                   ELSE st.sigma
             p1 == IF onpath
                   THEN [st.predecessors EXCEPT ![w] = Append(@, v)]
                   ELSE st.predecessors
         IN  sp_neighbor_loop_enqueue_on_path(
                 [st EXCEPT !.Q = Q1, !.distance = d1,
                            !.sigma = s1, !.predecessors = p1],
                 v, ns, i + 1)

\* The body of `for w in graph.neighbors(v)` for the neighbours ns[i..].
RECURSIVE sp_neighbor_loop(_, _, _, _)
sp_neighbor_loop(st, v, ns, i) ==
    IF i > Len(ns) THEN st
    ELSE LET w == ns[i]
             distance_v == st.distance[v]
             fresh == st.distance[w] < 0
             Q1 == IF fresh THEN Append(st.Q, w) ELSE st.Q
             d1 == IF fresh THEN [st.distance EXCEPT ![w] = distance_v + 1]
                   ELSE st.distance
             onpath == d1[w] = distance_v + 1
             s1 == IF onpath
                   THEN [st.sigma EXCEPT ![w] = QAdd(st.sigma[w], st.sigma[v])]
                   ELSE st.sigma
             p1 == IF onpath
                   THEN [st.predecessors EXCEPT ![w] = Append(@, v)]
                   ELSE st.predecessors
         IN  sp_neighbor_loop([st EXCEPT !.Q = Q1, !.distance = d1,
                                         !.sigma = s1, !.predecessors = p1],
                              v, ns, i + 1)

\* `while let Some(v) = Q.pop_front()`.
RECURSIVE sp_queue_loop(_, _)
sp_queue_loop(g, st) ==
    IF st.Q = <<>> THEN st
    ELSE LET v == Head(st.Q)
             st1 == [st EXCEPT !.Q = Tail(st.Q), !.verts = Append(st.verts, v)]
         IN  sp_queue_loop(g, sp_neighbor_loop(st1, v, neighbors(g, v), 1))

sp_search(g, node_s) ==
    sp_queue_loop(g,
        [Q |-> <<node_s>>,
         verts |-> <<>>,
         distance |-> [n \in g.live |-> IF n = node_s THEN 0 ELSE -1],
         sigma |-> [n \in g.live |-> IF n = node_s THEN Q(1) ELSE Q(0)],
         predecessors |-> [n \in g.live |-> <<>>]])

\* Mutant: the visit order is returned as recorded, nearest first.
shortest_path_for_centrality_not_reversed(g, node_s) ==
    LET st == sp_search(g, node_s)
    IN  [verts_sorted_by_distance |-> st.verts,
         predecessors |-> st.predecessors,
         sigma |-> st.sigma]

shortest_path_for_centrality(g, node_s) ==
    LET st == sp_search(g, node_s)
    IN  [verts_sorted_by_distance |-> Reverse(st.verts),
         predecessors |-> st.predecessors,
         sigma |-> st.sigma]

(***************************************************************************)
(* The delta pass shared by _accumulate_basic and _accumulate_endpoints.   *)
(***************************************************************************)
RECURSIVE delta_pred_loop(_, _, _, _, _)
delta_pred_loop(delta, path_calc, p_w, coeff, j) ==
    IF j > Len(p_w) THEN delta
    ELSE LET iv == p_w[j]
         IN  delta_pred_loop(
                 [delta EXCEPT ![iv] = QAdd(@, QMul(path_calc.sigma[iv], coeff))],
                 path_calc, p_w, coeff, j + 1)

RECURSIVE delta_vert_loop(_, _, _)
delta_vert_loop(delta, path_calc, i) ==
    IF i > Len(path_calc.verts_sorted_by_distance) THEN delta
    ELSE LET iw == path_calc.verts_sorted_by_distance[i]
             coeff == QDiv(QAdd(Q(1), delta[iw]), path_calc.sigma[iw])
         IN  delta_vert_loop(
                 delta_pred_loop(delta, path_calc, path_calc.predecessors[iw], coeff, 1),
                 path_calc, i + 1)

accumulate_delta(max_index, path_calc) ==
    delta_vert_loop([i \in 0..(max_index - 1) |-> Q(0)], path_calc, 1)

(***************************************************************************)
(* _rescale.  usize subtractions are recorded in `subs` as <<a, b>> for    *)
(* a - b, only for the branch that is taken.                               *)
(***************************************************************************)
\* Mutant: the unnormalized undirected branch does not halve.
rescale_policy_no_half(n, is_normalized, directed, with_endpoints) ==
    IF is_normalized
    THEN IF with_endpoints
         THEN IF n < 2
              THEN [do_scale |-> FALSE, scale |-> Q(1), subs |-> {}]
              ELSE [do_scale |-> TRUE,
                    scale |-> QDiv(Q(1), Q(n * (n - 1))),
                    subs |-> {<<n, 1>>}]
         ELSE IF n <= 2
              THEN [do_scale |-> FALSE, scale |-> Q(1), subs |-> {}]
              ELSE [do_scale |-> TRUE,
                    scale |-> QDiv(Q(1), Q((n - 1) * (n - 2))),
                    subs |-> {<<n, 1>>, <<n, 2>>}]
    ELSE [do_scale |-> FALSE, scale |-> Q(1), subs |-> {}]

\* Mutant: with endpoints the denominator of the branch without endpoints is used.
rescale_policy_endpoints_denominator(n, is_normalized, directed, with_endpoints) ==
    IF is_normalized
    THEN IF n <= 2
         THEN [do_scale |-> FALSE, scale |-> Q(1), subs |-> {}]
         ELSE [do_scale |-> TRUE,
               scale |-> QDiv(Q(1), Q((n - 1) * (n - 2))),
               subs |-> {<<n, 1>>, <<n, 2>>}]
    ELSE IF ~directed
         THEN [do_scale |-> TRUE, scale |-> <<1, 2>>, subs |-> {}]
         ELSE [do_scale |-> FALSE, scale |-> Q(1), subs |-> {}]

\* Mutant: the halving is applied to directed instead of undirected graphs.
rescale_policy_half_directed(n, is_normalized, directed, with_endpoints) ==
    IF is_normalized
    THEN IF with_endpoints
         THEN IF n < 2
              THEN [do_scale |-> FALSE, scale |-> Q(1), subs |-> {}]
              ELSE [do_scale |-> TRUE,
                    scale |-> QDiv(Q(1), Q(n * (n - 1))),
                    subs |-> {<<n, 1>>}]
         ELSE IF n <= 2
              THEN [do_scale |-> FALSE, scale |-> Q(1), subs |-> {}]
              ELSE [do_scale |-> TRUE,
                    scale |-> QDiv(Q(1), Q((n - 1) * (n - 2))),
                    subs |-> {<<n, 1>>, <<n, 2>>}]
    ELSE IF directed
         THEN [do_scale |-> TRUE, scale |-> <<1, 2>>, subs |-> {}]
         ELSE [do_scale |-> FALSE, scale |-> Q(1), subs |-> {}]

\* Mutant: the undirected branch selects 0.5 but leaves do_scale false.
rescale_policy_half_not_applied(n, is_normalized, directed, with_endpoints) ==
    IF is_normalized
    THEN IF with_endpoints
         THEN IF n < 2
              THEN [do_scale |-> FALSE, scale |-> Q(1), subs |-> {}]
              ELSE [do_scale |-> TRUE,
                    scale |-> QDiv(Q(1), Q(n * (n - 1))),
                    subs |-> {<<n, 1>>}]
         ELSE IF n <= 2
              THEN [do_scale |-> FALSE, scale |-> Q(1), subs |-> {}]
              ELSE [do_scale |-> TRUE,
                    scale |-> QDiv(Q(1), Q((n - 1) * (n - 2))),
                    subs |-> {<<n, 1>>, <<n, 2>>}]
    ELSE IF ~directed
         THEN [do_scale |-> FALSE, scale |-> <<1, 2>>, subs |-> {}]
         ELSE [do_scale |-> FALSE, scale |-> Q(1), subs |-> {}]

rescale_policy(n, is_normalized, directed, with_endpoints) ==
    IF is_normalized
    THEN IF with_endpoints
         THEN IF n < 2
              THEN [do_scale |-> FALSE, scale |-> Q(1), subs |-> {}]
              ELSE [do_scale |-> TRUE,
                    scale |-> QDiv(Q(1), Q(n * (n - 1))),
                    subs |-> {<<n, 1>>}]
         ELSE IF n <= 2
              THEN [do_scale |-> FALSE, scale |-> Q(1), subs |-> {}]
              ELSE [do_scale |-> TRUE,
                    scale |-> QDiv(Q(1), Q((n - 1) * (n - 2))),
                    subs |-> {<<n, 1>>, <<n, 2>>}]
    ELSE IF ~directed
         THEN [do_scale |-> TRUE, scale |-> <<1, 2>>, subs |-> {}]
         ELSE [do_scale |-> FALSE, scale |-> Q(1), subs |-> {}]

_rescale(buf, n, is_normalized, directed, with_endpoints) ==
    LET pol == rescale_policy(n, is_normalized, directed, with_endpoints)
    IN  IF pol.do_scale
        THEN [i \in DOMAIN buf |-> IF buf[i] = None THEN None ELSE QMul(buf[i], pol.scale)]
        ELSE buf

(***************************************************************************)
(* State of one call of betweenness_centrality.                            *)
(***************************************************************************)
VARIABLES
    graph,               \* the graph argument (read-only during the call)
    endpoints,           \* argument
    normalized,          \* argument
    parallel_threshold,  \* argument
    pc,                  \* "entry", "dispatch", "returned"
    betweenness,         \* Vec<Option<f64>>, indexed 0..max_index-1
    wpc,                 \* per source: "idle","searched","ready","merging","done"
    path_calc,           \* per source: its ShortestPathData, NoData when not held
    delta,               \* per source: its delta array, NoData when not held
    lock,                \* the set of sources whose task holds the write lock
    mpos,                \* position of the lock holder in its fold-in loop
    reordered,           \* history: some fold-in began before that of an earlier source
    branch,              \* the branch of line 77 taken: "iter" or "par_iter"
    before               \* history: the buffer when the lock holder acquired the lock

bcVars == <<graph, endpoints, normalized, parallel_threshold, pc, betweenness,
            wpc, path_calc, delta, lock, mpos, reordered, branch, before>>

\* State of the connected-components traversal, and of the _rescale runs.
VARIABLES
    cc_fn,            \* the function running: "number", "components", or "done"
    cc_pc,            \* "loop" (the for loop over starts) or "bfs" (inside bfs_undirected)
    cc_i,             \* position of the for loop in graph.node_identifiers()
    discovered,       \* the visit map
    stack,            \* bfs_undirected: the deque
    component,        \* bfs_undirected: the set being collected
    num_components,   \* number_connected_components: the counter (its result at the end)
    conn_components,  \* connected_components: the vector (its result at the end)
    seeds             \* history: per function, the starts that began a component

\* _rescale runs: [history, node_count, normalized, directed, endpoints].
VARIABLES rs

\* One call of shortest_path_for_centrality followed by the delta pass of the
\* accumulate functions: [node_s, pc, distance, data, delta].
VARIABLES sp

ccVars == <<cc_fn, cc_pc, cc_i, discovered, stack, component, num_components,
            conn_components, seeds>>

NoData == <<>>

max_index == node_bound(graph)

\* line 77: the sequential branch is taken.
sequential == node_count(graph) < parallel_threshold

\* Mutant: a node count equal to the threshold still takes the sequential branch.
dispatch_branch_inclusive(n, threshold) ==
    IF n <= threshold THEN "iter" ELSE "par_iter"

\* line 77: `if graph.node_count() < parallel_threshold`, the iterator of
\* lines 78-79 or the parallel iterator of lines 104-105.
dispatch_branch(n, threshold) ==
    IF n < threshold THEN "iter" ELSE "par_iter"

BcInit ==
    /\ graph \in Graphs
    /\ endpoints \in BOOLEAN
    /\ normalized \in BOOLEAN
    /\ parallel_threshold \in Thresholds
    /\ pc = "entry"
    /\ betweenness = <<>>
    /\ wpc = <<>>
    /\ path_calc = <<>>
    /\ delta = <<>>
    /\ lock = {}
    /\ mpos = 0
    /\ reordered = FALSE
    /\ branch = "none"
    /\ before = <<>>

\* Mutant: every slot of the result starts as Some(0.0), holes included.
InitializeAllSome ==
    /\ pc = "entry"
    /\ betweenness' = [i \in 0..(node_bound(graph) - 1) |-> Q(0)]
    /\ wpc' = [s \in graph.live |-> "idle"]
    /\ path_calc' = [s \in graph.live |-> NoData]
    /\ delta' = [s \in graph.live |-> NoData]
    /\ pc' = "dispatch"
    /\ branch' = dispatch_branch(node_count(graph), parallel_threshold)
    /\ UNCHANGED <<graph, endpoints, normalized, parallel_threshold, lock, mpos,
                   reordered, before>>
    /\ UNCHANGED <<ccVars, rs, sp>>

\* lines 68-76: allocate the result, zero the live slots, wrap it in the lock,
\* collect the sources.
Initialize ==
    /\ pc = "entry"
    /\ betweenness' = [i \in 0..(node_bound(graph) - 1) |->
                          IF i \in graph.live THEN Q(0) ELSE None]
    /\ wpc' = [s \in graph.live |-> "idle"]
    /\ path_calc' = [s \in graph.live |-> NoData]
    /\ delta' = [s \in graph.live |-> NoData]
    /\ pc' = "dispatch"
    /\ branch' = dispatch_branch(node_count(graph), parallel_threshold)
    /\ UNCHANGED <<graph, endpoints, normalized, parallel_threshold, lock, mpos,
                   reordered, before>>
    /\ UNCHANGED <<ccVars, rs, sp>>

\* The map closure (lines 80-85 / 106-111) for source s.  The sequential
\* iterator takes the sources in enumeration order, one at a time; the
\* parallel iterator may run the closure of any source at any time.
Search(s) ==
    /\ pc = "dispatch"
    /\ wpc[s] = "idle"
    /\ branch = "iter" => \A t \in graph.live : t < s => wpc[t] = "done"
    /\ path_calc' = [path_calc EXCEPT ![s] = shortest_path_for_centrality(graph, s)]
    /\ wpc' = [wpc EXCEPT ![s] = "searched"]
    /\ UNCHANGED <<graph, endpoints, normalized, parallel_threshold, pc,
                   betweenness, delta, lock, mpos, reordered, branch, before>>
    /\ UNCHANGED <<ccVars, rs, sp>>

\* Mutant: the write guard is taken at the top of the accumulate function,
\* before the delta pass.
ComputeDeltaUnderLock(s) ==
    /\ pc = "dispatch"
    /\ wpc[s] = "searched"
    /\ lock = {}
    /\ lock' = {s}
    /\ delta' = [delta EXCEPT ![s] = accumulate_delta(max_index, path_calc[s])]
    /\ wpc' = [wpc EXCEPT ![s] = "ready"]
    /\ UNCHANGED <<graph, endpoints, normalized, parallel_threshold, pc,
                   betweenness, path_calc, mpos, reordered, branch, before>>
    /\ UNCHANGED <<ccVars, rs, sp>>

\* _accumulate_basic lines 180-189 / _accumulate_endpoints lines 205-214.
ComputeDelta(s) ==
    /\ pc = "dispatch"
    /\ wpc[s] = "searched"
    /\ delta' = [delta EXCEPT ![s] = accumulate_delta(max_index, path_calc[s])]
    /\ wpc' = [wpc EXCEPT ![s] = "ready"]
    /\ UNCHANGED <<graph, endpoints, normalized, parallel_threshold, pc,
                   betweenness, path_calc, lock, mpos, reordered, branch, before>>
    /\ UNCHANGED <<ccVars, rs, sp>>

\* Mutant: the write lock is granted although another source holds it.
AcquireNoExclusion(s) ==
    /\ pc = "dispatch"
    /\ wpc[s] = "ready"
    /\ lock' = lock \cup {s}
    /\ mpos' = IF endpoints THEN 0 ELSE 1
    /\ wpc' = [wpc EXCEPT ![s] = "merging"]
    /\ reordered' = (reordered \/ \E t \in graph.live : t < s /\ wpc[t] # "done")
    /\ before' = betweenness
    /\ UNCHANGED <<graph, endpoints, normalized, parallel_threshold, pc,
                   betweenness, path_calc, delta, branch>>
    /\ UNCHANGED <<ccVars, rs, sp>>

\* locked_betweenness.write() (line 190 / 215).
Acquire(s) ==
    /\ pc = "dispatch"
    /\ wpc[s] = "ready"
    /\ lock = {}
    /\ lock' = {s}
    /\ mpos' = IF endpoints THEN 0 ELSE 1
    /\ wpc' = [wpc EXCEPT ![s] = "merging"]
    /\ reordered' = (reordered \/ \E t \in graph.live : t < s /\ wpc[t] # "done")
    /\ before' = betweenness
    /\ UNCHANGED <<graph, endpoints, normalized, parallel_threshold, pc,
                   betweenness, path_calc, delta, branch>>
    /\ UNCHANGED <<ccVars, rs, sp>>

\* Mutant: the source's own slot is credited with every reached node, the
\* source included.
MergeSourceCountsItself(s) ==
    /\ pc = "dispatch"
    /\ wpc[s] = "merging"
    /\ lock = {s}
    /\ mpos = 0
    /\ LET reached == Len(path_calc[s].verts_sorted_by_distance)
       IN  betweenness' = [betweenness EXCEPT ![s] =
                              IF @ = None THEN None ELSE QAdd(@, Q(reached))]
    /\ mpos' = 1
    /\ UNCHANGED <<graph, endpoints, normalized, parallel_threshold, pc,
                   wpc, path_calc, delta, lock, reordered, branch, before>>
    /\ UNCHANGED <<ccVars, rs, sp>>

\* _accumulate_endpoints lines 216-217: the source's own slot.
MergeSource(s) ==
    /\ pc = "dispatch"
    /\ wpc[s] = "merging"
    /\ lock = {s}
    /\ mpos = 0
    /\ LET reached == Len(path_calc[s].verts_sorted_by_distance) - 1
       IN  betweenness' = [betweenness EXCEPT ![s] =
                              IF @ = None THEN None ELSE QAdd(@, Q(reached))]
    /\ mpos' = 1
    /\ UNCHANGED <<graph, endpoints, normalized, parallel_threshold, pc,
                   wpc, path_calc, delta, lock, reordered, branch, before>>
    /\ UNCHANGED <<ccVars, rs, sp>>

\* The value one iteration of the fold-in loop adds to slot iw.
merge_term(s, iw) == IF endpoints THEN QAdd(delta[s][iw], Q(1)) ELSE delta[s][iw]

\* Mutant: the fold-in stores the term instead of adding it.
MergeSlotOverwrite(s) ==
    /\ pc = "dispatch"
    /\ wpc[s] = "merging"
    /\ lock = {s}
    /\ mpos >= 1
    /\ mpos <= Len(path_calc[s].verts_sorted_by_distance)
    /\ LET iw == path_calc[s].verts_sorted_by_distance[mpos]
       IN  betweenness' =
               IF iw # s
               THEN [betweenness EXCEPT ![iw] =
                        IF @ = None THEN None ELSE merge_term(s, iw)]
               ELSE betweenness
    /\ mpos' = mpos + 1
    /\ UNCHANGED <<graph, endpoints, normalized, parallel_threshold, pc,
                   wpc, path_calc, delta, lock, reordered, branch, before>>
    /\ UNCHANGED <<ccVars, rs, sp>>

\* Mutant: the fold-in loop does not skip the source itself.
MergeSlotNoSourceTest(s) ==
    /\ pc = "dispatch"
    /\ wpc[s] = "merging"
    /\ lock = {s}
    /\ mpos >= 1
    /\ mpos <= Len(path_calc[s].verts_sorted_by_distance)
    /\ LET iw == path_calc[s].verts_sorted_by_distance[mpos]
       IN  betweenness' =
               [betweenness EXCEPT ![iw] =
                   IF @ = None THEN None ELSE QAdd(@, merge_term(s, iw))]
    /\ mpos' = mpos + 1
    /\ UNCHANGED <<graph, endpoints, normalized, parallel_threshold, pc,
                   wpc, path_calc, delta, lock, reordered, branch, before>>
    /\ UNCHANGED <<ccVars, rs, sp>>

\* One iteration of the fold-in loop (lines 191-196 / 218-223).
MergeSlot(s) ==
    /\ pc = "dispatch"
    /\ wpc[s] = "merging"
    /\ lock = {s}
    /\ mpos >= 1
    /\ mpos <= Len(path_calc[s].verts_sorted_by_distance)
    /\ LET iw == path_calc[s].verts_sorted_by_distance[mpos]
       IN  betweenness' =
               IF iw # s
               THEN [betweenness EXCEPT ![iw] =
                        IF @ = None THEN None ELSE QAdd(@, merge_term(s, iw))]
               ELSE betweenness
    /\ mpos' = mpos + 1
    /\ UNCHANGED <<graph, endpoints, normalized, parallel_threshold, pc,
                   wpc, path_calc, delta, lock, reordered, branch, before>>
    /\ UNCHANGED <<ccVars, rs, sp>>

\* Mutant: the write guard outlives the accumulate function.
ReleaseKeepsLock(s) ==
    /\ pc = "dispatch"
    /\ wpc[s] = "merging"
    /\ lock = {s}
    /\ mpos > Len(path_calc[s].verts_sorted_by_distance)
    /\ lock' = lock
    /\ mpos' = 0
    /\ wpc' = [wpc EXCEPT ![s] = "done"]
    /\ path_calc' = [path_calc EXCEPT ![s] = NoData]
    /\ delta' = [delta EXCEPT ![s] = NoData]
    /\ before' = <<>>
    /\ UNCHANGED <<graph, endpoints, normalized, parallel_threshold, pc, betweenness, reordered, branch>>
    /\ UNCHANGED <<ccVars, rs, sp>>

\* End of the accumulate function: the guard, the delta array and the
\* shortest-path data are dropped.
Release(s) ==
    /\ pc = "dispatch"
    /\ wpc[s] = "merging"
    /\ lock = {s}
    /\ mpos > Len(path_calc[s].verts_sorted_by_distance)
    /\ lock' = {}
    /\ mpos' = 0
    /\ wpc' = [wpc EXCEPT ![s] = "done"]
    /\ path_calc' = [path_calc EXCEPT ![s] = NoData]
    /\ delta' = [delta EXCEPT ![s] = NoData]
    /\ before' = <<>>
    /\ UNCHANGED <<graph, endpoints, normalized, parallel_threshold, pc, betweenness, reordered, branch>>
    /\ UNCHANGED <<ccVars, rs, sp>>

\* Mutant: the rescaling does not wait for the tasks of all sources.
RescaleEarly ==
    /\ pc = "dispatch"
    /\ lock = {}
    /\ betweenness' = _rescale(betweenness, node_count(graph), normalized,
                               graph.directed, endpoints)
    /\ pc' = "returned"
    /\ UNCHANGED <<graph, endpoints, normalized, parallel_threshold,
                   wpc, path_calc, delta, lock, mpos, reordered, branch, before>>
    /\ UNCHANGED <<ccVars, rs, sp>>

\* lines 130-138: for_each has returned, rescale and return.
Rescale ==
    /\ pc = "dispatch"
    /\ \A s \in graph.live : wpc[s] = "done"
    /\ betweenness' = _rescale(betweenness, node_count(graph), normalized,
                               graph.directed, endpoints)
    /\ pc' = "returned"
    /\ UNCHANGED <<graph, endpoints, normalized, parallel_threshold,
                   wpc, path_calc, delta, lock, mpos, reordered, branch, before>>
    /\ UNCHANGED <<ccVars, rs, sp>>

BcNext ==
    \/ Initialize
    \/ \E s \in graph.live : Search(s)
    \/ \E s \in graph.live : ComputeDelta(s)
    \/ \E s \in graph.live : Acquire(s)
    \/ \E s \in graph.live : MergeSource(s)
    \/ \E s \in graph.live : MergeSlot(s)
    \/ \E s \in graph.live : Release(s)
    \/ Rescale

\* The centrality variables when no call of betweenness_centrality is modelled.
BcUnused ==
    /\ endpoints = FALSE
    /\ normalized = FALSE
    /\ parallel_threshold = 0
    /\ pc = "unused"
    /\ betweenness = <<>>
    /\ wpc = <<>>
    /\ path_calc = <<>>
    /\ delta = <<>>
    /\ lock = {}
    /\ mpos = 0
    /\ reordered = FALSE
    /\ branch = "none"
    /\ before = <<>>

(***************************************************************************)
(* Connected components: number_connected_components(graph) followed by    *)
(* connected_components(graph) on the same graph.                          *)
(***************************************************************************)
CcInit ==
    /\ graph \in Graphs
    /\ cc_fn = "number"
    /\ cc_pc = "loop"
    /\ cc_i = 1
    /\ discovered = {}
    /\ stack = <<>>
    /\ component = {}
    /\ num_components = 0
    /\ conn_components = <<>>
    /\ seeds = [number |-> <<>>, components |-> <<>>]

CcUnused ==
    /\ cc_fn = "unused"
    /\ cc_pc = "unused"
    /\ cc_i = 0
    /\ discovered = {}
    /\ stack = <<>>
    /\ component = {}
    /\ num_components = 0
    /\ conn_components = <<>>
    /\ seeds = <<>>

unusedByCc == <<endpoints, normalized, parallel_threshold, pc, betweenness,
               wpc, path_calc, delta, lock, mpos, reordered, branch, before, rs, sp>>

\* Mutant: number_connected_components counts a start before testing whether
\* it was already discovered.
VisitStartCountAll ==
    /\ cc_fn \in {"number", "components"}
    /\ cc_pc = "loop"
    /\ cc_i <= Len(node_identifiers(graph))
    /\ num_components' = IF cc_fn = "number" THEN num_components + 1 ELSE num_components
    /\ LET start == node_identifiers(graph)[cc_i]
       IN  IF start \in discovered
           THEN /\ cc_i' = cc_i + 1
                /\ UNCHANGED <<cc_fn, cc_pc, discovered, stack, component,
                               conn_components, seeds>>
           ELSE /\ discovered' = discovered \cup {start}
                /\ seeds' = [seeds EXCEPT ![cc_fn] = Append(@, start)]
                /\ component' = {start}
                /\ stack' = <<start>>
                /\ cc_pc' = "bfs"
                /\ UNCHANGED <<cc_fn, cc_i, conn_components>>
    /\ UNCHANGED <<graph, unusedByCc>>

\* One iteration of the for loop of number_connected_components (lines
\* 150-156) or connected_components (lines 116-121), up to the call of
\* bfs_undirected and its first two statements (lines 58-61).
VisitStart ==
    /\ cc_fn \in {"number", "components"}
    /\ cc_pc = "loop"
    /\ cc_i <= Len(node_identifiers(graph))
    /\ LET start == node_identifiers(graph)[cc_i]
       IN  IF start \in discovered
           THEN /\ cc_i' = cc_i + 1
                /\ UNCHANGED <<cc_fn, cc_pc, discovered, stack, component,
                               num_components, conn_components, seeds>>
           ELSE /\ discovered' = discovered \cup {start}
                /\ num_components' = IF cc_fn = "number" THEN num_components + 1
                                     ELSE num_components
                /\ seeds' = [seeds EXCEPT ![cc_fn] = Append(@, start)]
                /\ component' = {start}
                /\ stack' = <<start>>
                /\ cc_pc' = "bfs"
                /\ UNCHANGED <<cc_fn, cc_i, conn_components>>
    /\ UNCHANGED <<graph, unusedByCc>>

\* Mutant: every neighbour is inserted into the component, discovered or not.
RECURSIVE bfs_succ_loop_insert_always(_, _, _)
bfs_succ_loop_insert_always(st, ns, i) ==
    IF i > Len(ns) THEN st
    ELSE LET succ == ns[i]
         IN  IF succ \notin st.discovered
             THEN bfs_succ_loop_insert_always(
                      [discovered |-> st.discovered \cup {succ},
                       stack |-> Append(st.stack, succ),
                       component |-> st.component \cup {succ}], ns, i + 1)
             ELSE bfs_succ_loop_insert_always(
                      [st EXCEPT !.component = @ \cup {succ}], ns, i + 1)

\* bfs_undirected lines 64-69: `for succ in graph.neighbors(node)`.
RECURSIVE bfs_succ_loop(_, _, _)
bfs_succ_loop(st, ns, i) ==
    IF i > Len(ns) THEN st
    ELSE LET succ == ns[i]
         IN  IF succ \notin st.discovered
             THEN bfs_succ_loop([discovered |-> st.discovered \cup {succ},
                                 stack |-> Append(st.stack, succ),
                                 component |-> st.component \cup {succ}], ns, i + 1)
             ELSE bfs_succ_loop(st, ns, i + 1)

\* bfs_undirected line 63: one iteration of `while let Some(node) = stack.pop_front()`.
BfsStep ==
    /\ cc_pc = "bfs"
    /\ stack # <<>>
    /\ LET node == Head(stack)
           st == bfs_succ_loop([discovered |-> discovered, stack |-> Tail(stack),
                                component |-> component], neighbors(graph, node), 1)
       IN  /\ discovered' = st.discovered
           /\ stack' = st.stack
           /\ component' = st.component
    /\ UNCHANGED <<graph, cc_fn, cc_pc, cc_i, num_components, conn_components, seeds>>
    /\ UNCHANGED unusedByCc

\* bfs_undirected returns (line 72); connected_components pushes the
\* component (line 122), number_connected_components drops it.
BfsReturn ==
    /\ cc_pc = "bfs"
    /\ stack = <<>>
    /\ conn_components' = IF cc_fn = "components" THEN Append(conn_components, component)
                          ELSE conn_components
    /\ component' = {}
    /\ cc_pc' = "loop"
    /\ cc_i' = cc_i + 1
    /\ UNCHANGED <<graph, cc_fn, discovered, stack, num_components, seeds>>
    /\ UNCHANGED unusedByCc

\* The for loop is exhausted: the function returns (line 159 / 125).  After
\* number_connected_components the caller calls connected_components, which
\* takes a fresh visit map (line 114).
FnReturn ==
    /\ cc_fn \in {"number", "components"}
    /\ cc_pc = "loop"
    /\ cc_i > Len(node_identifiers(graph))
    /\ cc_fn' = IF cc_fn = "number" THEN "components" ELSE "done"
    /\ cc_i' = IF cc_fn = "number" THEN 1 ELSE cc_i
    /\ discovered' = IF cc_fn = "number" THEN {} ELSE discovered
    /\ UNCHANGED <<graph, cc_pc, stack, component, num_components, conn_components, seeds>>
    /\ UNCHANGED unusedByCc

CcNext ==
    \/ VisitStart
    \/ BfsStep
    \/ BfsReturn
    \/ FnReturn

(***************************************************************************)
(* _rescale applied repeatedly to a buffer, as a function of its           *)
(* arguments.  rs.history is the buffer before and after each application. *)
(***************************************************************************)
MaxSlots == 2

MaxApplications == 2

SlotValues == {None, Q(0), Q(1), <<3, 2>>}

RescaleCounts == {0, 1, 2, 3, 10}

RsInit ==
    \E buf \in SeqsUpTo(SlotValues, MaxSlots), n \in RescaleCounts,
       nm \in BOOLEAN, dr \in BOOLEAN, ep \in BOOLEAN :
        rs = [history |-> <<buf>>, node_count |-> n, normalized |-> nm,
              directed |-> dr, endpoints |-> ep]

RsUnused == rs = <<>>

SpUnused == sp = <<>>

ApplyRescale ==
    /\ Len(rs.history) <= MaxApplications
    /\ rs' = [rs EXCEPT !.history =
                 Append(@, _rescale(rs.history[Len(rs.history)], rs.node_count,
                                    rs.normalized, rs.directed, rs.endpoints))]
    /\ UNCHANGED <<bcVars, ccVars, sp>>

RsNext == ApplyRescale

vars == <<bcVars, ccVars, rs, sp>>

NoGraph == [live |-> {}, directed |-> FALSE, edges |-> <<>>]

Init == BcInit /\ CcUnused /\ RsUnused /\ SpUnused

Spec == Init /\ [][BcNext]_vars

\* Unnormalized betweenness_centrality on star graphs only.
InitStar ==
    /\ graph \in StarGraphs
    /\ endpoints \in BOOLEAN
    /\ normalized = FALSE
    /\ parallel_threshold \in Thresholds
    /\ pc = "entry"
    /\ betweenness = <<>>
    /\ wpc = <<>>
    /\ path_calc = <<>>
    /\ delta = <<>>
    /\ lock = {}
    /\ mpos = 0
    /\ reordered = FALSE
    /\ branch = "none"
    /\ before = <<>>
    /\ CcUnused
    /\ RsUnused
    /\ SpUnused

SpecStar == InitStar /\ [][BcNext]_vars

InitCC == CcInit /\ BcUnused /\ RsUnused /\ SpUnused

SpecCC == InitCC /\ [][CcNext]_vars

InitRescale == RsInit /\ graph = NoGraph /\ BcUnused /\ CcUnused /\ SpUnused

SpecRescale == InitRescale /\ [][RsNext]_vars

(***************************************************************************)
(* shortest_path_for_centrality and the delta pass as functions of their   *)
(* arguments: one call from the source sp.node_s on any graph.             *)
(* sp.distance is the local map `distance` when the search loop ends.      *)
(***************************************************************************)
SpInit ==
    /\ graph \in Graphs
    /\ sp \in {[node_s |-> s, pc |-> "call", distance |-> <<>>, data |-> NoData,
                 delta |-> NoData] : s \in graph.live}

\* shortest_path_for_centrality(&graph, node_s) runs and returns.
SpSearch ==
    /\ sp.pc = "call"
    /\ sp' = [sp EXCEPT !.pc = "searched",
                        !.distance = sp_search(graph, sp.node_s).distance,
                        !.data = shortest_path_for_centrality(graph, sp.node_s)]
    /\ UNCHANGED <<bcVars, ccVars, rs>>

\* The delta pass of _accumulate_basic / _accumulate_endpoints on the result.
SpDeltaPass ==
    /\ sp.pc = "searched"
    /\ sp' = [sp EXCEPT !.pc = "accumulated",
                        !.delta = accumulate_delta(node_bound(graph), sp.data)]
    /\ UNCHANGED <<bcVars, ccVars, rs>>

SpNext ==
    \/ SpSearch
    \/ SpDeltaPass

InitSP == SpInit /\ BcUnused /\ CcUnused /\ RsUnused

SpecSP == InitSP /\ [][SpNext]_vars

(***************************************************************************)
(* Reference definitions used by the properties: shortest paths counted    *)
(* directly from the edge list, and the sequential fold of whole merges.   *)
(***************************************************************************)
RECURSIVE SumFn(_, _)
SumFn(f, S) ==
    IF S = {} THEN Q(0)
    ELSE LET x == CHOOSE y \in S : TRUE
         IN  QAdd(f[x], SumFn(f, S \ {x}))

\* Number of edges usable to step from u to w.
ArcCount(g, u, w) ==
    Cardinality({i \in 1..Len(g.edges) :
                    \/ g.edges[i] = <<u, w>>
                    \/ ~g.directed /\ g.edges[i] = <<w, u>>})

Successors(g, S) == {w \in g.live : \E u \in S : ArcCount(g, u, w) > 0}

RECURSIVE DistFrom(_, _, _, _, _)
DistFrom(g, frontier, seen, t, k) ==
    IF t \in frontier THEN k
    ELSE IF frontier = {} THEN -1
    ELSE DistFrom(g, Successors(g, frontier) \ (seen \cup frontier),
                  seen \cup frontier, t, k + 1)

\* Length of a shortest path from s to t, -1 when there is none.
Dist(g, s, t) == DistFrom(g, {s}, {}, t, 0)

\* Number of shortest paths from s to t, as sequences of edges.
RECURSIVE PathCount(_, _, _)
PathCount(g, s, t) ==
    IF s = t THEN 1
    ELSE IF Dist(g, s, t) < 0 THEN 0
    ELSE LET prev == {u \in g.live : Dist(g, s, u) = Dist(g, s, t) - 1}
             term == [u \in prev |-> Q(PathCount(g, s, u) * ArcCount(g, u, t))]
         IN  SumFn(term, prev)[1]

\* sigma(s,t|v) / sigma(s,t) for t reachable from s and v not in {s,t}.
PairDependency(g, s, t, v) ==
    IF /\ Dist(g, s, v) >= 0
       /\ Dist(g, v, t) >= 0
       /\ Dist(g, s, v) + Dist(g, v, t) = Dist(g, s, t)
    THEN QNorm(PathCount(g, s, v) * PathCount(g, v, t), PathCount(g, s, t))
    ELSE Q(0)

PairSum(g, v) ==
    LET pairs == {p \in g.live \X g.live :
                    /\ p[1] # p[2]
                    /\ v \notin {p[1], p[2]}
                    /\ Dist(g, p[1], p[2]) >= 0}
    IN  SumFn([p \in pairs |-> PairDependency(g, p[1], p[2], v)], pairs)

\* The whole fold-in of source s applied to buf at once.
WholeMerge(buf, s) ==
    LET data == shortest_path_for_centrality(graph, s)
        d == accumulate_delta(node_bound(graph), data)
        visited == Range(data.verts_sorted_by_distance)
    IN  [i \in DOMAIN buf |->
            IF buf[i] = None THEN None
            ELSE IF i = s
                 THEN IF endpoints THEN QAdd(buf[i], Q(Cardinality(visited) - 1))
                      ELSE buf[i]
            ELSE IF i \in visited
                 THEN IF endpoints THEN QAdd(QAdd(buf[i], d[i]), Q(1))
                      ELSE QAdd(buf[i], d[i])
            ELSE buf[i]]

RECURSIVE FoldSources(_, _, _)
FoldSources(buf, ids, i) ==
    IF i > Len(ids) THEN buf ELSE FoldSources(WholeMerge(buf, ids[i]), ids, i + 1)

ZeroBuffer == [i \in 0..(node_bound(graph) - 1) |-> IF i \in graph.live THEN Q(0) ELSE None]

\* What the sequential branch returns: the sources folded in enumeration
\* order, then rescaled.
SequentialResult ==
    _rescale(FoldSources(ZeroBuffer, node_identifiers(graph), 1),
             node_count(graph), normalized, graph.directed, endpoints)

Nonzero(buf) == \E i \in DOMAIN buf : buf[i] # None /\ buf[i] # Q(0)

(***************************************************************************)
(* C1: whatever the interleaving of the workers and the order of the       *)
(* per-source merges, the value betweenness_centrality returns is, slot by *)
(* slot, the value the sequential processing in enumeration order returns  *)
(* (addition taken as exact).                                              *)
(***************************************************************************)
C1_ParallelEqualsSequential ==
    pc = "returned" => betweenness = SequentialResult

\* A parallel call has returned a non-zero result after some source was
\* merged before an earlier one.
C1_Witness ==
    /\ pc = "returned"
    /\ ~sequential
    /\ reordered
    /\ Nonzero(betweenness)

(***************************************************************************)
(* C2: with normalized = false and endpoints = false the returned score of *)
(* every live node v is the sum over ordered pairs (s,t) of live nodes,    *)
(* s # t, v not in {s,t}, t reachable from s, of sigma(s,t|v)/sigma(s,t),  *)
(* as is for a directed graph and halved for an undirected one.            *)
(***************************************************************************)
C2_ScoreIsPairSum ==
    (pc = "returned" /\ ~normalized /\ ~endpoints) =>
        \A v \in graph.live :
            betweenness[v] = IF graph.directed THEN PairSum(graph, v)
                             ELSE QMul(<<1, 2>>, PairSum(graph, v))

\* An unnormalized call without endpoints returned a score that is not an
\* integer: some pair has several shortest paths and not all pass through v.
C2_Witness ==
    /\ pc = "returned"
    /\ ~normalized
    /\ ~endpoints
    /\ graph.directed
    /\ \E v \in graph.live : betweenness[v][2] # 1

(***************************************************************************)
(* C3: once the result is initialized it has exactly node_bound slots and  *)
(* a slot is None exactly when its index denotes no live node, after every *)
(* merge step, after rescaling and in the returned value.                  *)
(***************************************************************************)
C3_NoneIffHole ==
    pc \in {"dispatch", "returned"} =>
        /\ DOMAIN betweenness = 0..(node_bound(graph) - 1)
        /\ \A i \in DOMAIN betweenness : (betweenness[i] = None) <=> (i \notin graph.live)

\* A returned result with a hole and a non-zero score.
C3_Witness ==
    /\ pc = "returned"
    /\ \E i \in DOMAIN betweenness : betweenness[i] = None
    /\ Nonzero(betweenness)
    /\ \E i \in DOMAIN betweenness : betweenness[i] # None /\ betweenness[i][2] # 1

(***************************************************************************)
(* C4: on an undirected star with one centre and k leaves, with            *)
(* normalized = false and endpoints = false, the centre's score is         *)
(* k(k-1)/2 and every leaf's score is 0.                                   *)
(***************************************************************************)
\* g is an undirected star with centre c: every edge joins c to a leaf and
\* every other live node has exactly one edge.
IsStar(g, c) ==
    /\ ~g.directed
    /\ c \in g.live
    /\ Len(g.edges) = Cardinality(g.live) - 1
    /\ \A v \in g.live \ {c} :
           Cardinality({i \in 1..Len(g.edges) :
                           g.edges[i] = <<c, v>> \/ g.edges[i] = <<v, c>>}) = 1

C4_StarScores ==
    (pc = "returned" /\ ~normalized /\ ~endpoints) =>
        \A c \in graph.live :
            IsStar(graph, c) =>
                LET k == Cardinality(graph.live) - 1
                IN  /\ betweenness[c] = QNorm(k * (k - 1), 2)
                    /\ \A v \in graph.live \ {c} : betweenness[v] = Q(0)

\* A star with MaxLeaves leaves was scored by a parallel call.
C4_Witness ==
    /\ pc = "returned"
    /\ ~normalized
    /\ ~endpoints
    /\ ~sequential
    /\ \E c \in graph.live :
           /\ IsStar(graph, c)
           /\ Cardinality(graph.live) = MaxLeaves + 1
           /\ betweenness[c] = QNorm(MaxLeaves * (MaxLeaves - 1), 2)

(***************************************************************************)
(* C5: with normalized = true and endpoints = true every live node's       *)
(* returned score s satisfies 0 <= s <= 1.                                 *)
(***************************************************************************)
C5_NormalizedEndpointsRange ==
    (pc = "returned" /\ normalized /\ endpoints) =>
        \A v \in graph.live : QLe(Q(0), betweenness[v]) /\ QLe(betweenness[v], Q(1))

\* A normalized, endpoints-included score strictly between 0 and 1, and
\* another equal to 1.
C5_Witness ==
    /\ pc = "returned"
    /\ normalized
    /\ endpoints
    /\ \E v \in graph.live : betweenness[v] = Q(1)
    /\ \E v \in graph.live : betweenness[v] # Q(0) /\ betweenness[v] # Q(1)

(***************************************************************************)
(* C6: one application of _rescale multiplies every live slot by the       *)
(* factor of the policy table, for n in {0,1,2,3,10} and every combination *)
(* of the flags, and no unsigned subtraction n-1 or n-2 is evaluated with  *)
(* a negative result.                                                      *)
(***************************************************************************)
\* The policy table.
TableScale(n, is_normalized, directed, with_endpoints) ==
    CASE is_normalized /\ with_endpoints /\ n < 2 -> Q(1)
      [] is_normalized /\ with_endpoints /\ n >= 2 -> QNorm(1, n * (n - 1))
      [] is_normalized /\ ~with_endpoints /\ n <= 2 -> Q(1)
      [] is_normalized /\ ~with_endpoints /\ n > 2 -> QNorm(1, (n - 1) * (n - 2))
      [] ~is_normalized /\ ~directed -> <<1, 2>>
      [] ~is_normalized /\ directed -> Q(1)

SelectedPolicy == rescale_policy(rs.node_count, rs.normalized, rs.directed, rs.endpoints)

C6_RescaleTable ==
    Len(rs.history) >= 2 =>
        LET input == rs.history[1]
            output == rs.history[2]
            factor == TableScale(rs.node_count, rs.normalized, rs.directed, rs.endpoints)
        IN  /\ DOMAIN output = DOMAIN input
            /\ \A i \in DOMAIN input :
                   output[i] = IF input[i] = None THEN None ELSE QMul(input[i], factor)
            /\ \A sub \in SelectedPolicy.subs : sub[1] >= sub[2]

\* _rescale was applied with n = 10, normalized without endpoints, to a
\* buffer with a hole and a non-zero slot.
C6_Witness ==
    /\ Len(rs.history) >= 2
    /\ rs.node_count = 10
    /\ rs.normalized
    /\ ~rs.endpoints
    /\ Nonzero(rs.history[1])
    /\ \E i \in DOMAIN rs.history[1] : rs.history[1][i] = None
    /\ rs.history[2] # rs.history[1]

(***************************************************************************)
(* C7 as stated: whatever the buffer, a second application of _rescale     *)
(* with the same arguments leaves the buffer as the first left it only if  *)
(* the selected scale is 1.                                                *)
(***************************************************************************)
C7_IdempotentOnlyIfScaleOne ==
    (Len(rs.history) >= 3 /\ rs.history[3] = rs.history[2]) =>
        SelectedPolicy.scale = Q(1)

(***************************************************************************)
(* C7 amended: a second application of _rescale with the same arguments    *)
(* leaves the buffer as the first left it only if the selected scale is 1  *)
(* or the buffer has no non-zero slot.                                     *)
(***************************************************************************)
C7_IdempotentOnlyIfNoopOrZero ==
    (Len(rs.history) >= 3 /\ rs.history[3] = rs.history[2]) =>
        (SelectedPolicy.scale = Q(1) \/ ~Nonzero(rs.history[1]))

\* Two applications to a buffer with a non-zero slot: in a no-op branch they
\* agree.
C7_Witness ==
    /\ Len(rs.history) >= 3
    /\ Nonzero(rs.history[1])
    /\ rs.history[3] = rs.history[2]
    /\ rs.normalized
    /\ rs.node_count = 2

(***************************************************************************)
(* C8: number_connected_components(g) equals the number of sets            *)
(* connected_components(g) returns, and the two traversals start a         *)
(* component at the same nodes.                                            *)
(***************************************************************************)
C8_CountEqualsLen ==
    cc_fn = "done" =>
        /\ num_components = Len(conn_components)
        /\ seeds.number = seeds.components

\* Both traversals finished on a graph with two components, one of them
\* with a node that is not a seed.
C8_Witness ==
    /\ cc_fn = "done"
    /\ num_components = 2
    /\ Cardinality(graph.live) = 3

(***************************************************************************)
(* C9: the sets connected_components returns are non-empty, pairwise       *)
(* disjoint, and their union is the set of existing nodes.                 *)
(***************************************************************************)
C9_Partition ==
    cc_fn = "done" =>
        /\ \A i \in 1..Len(conn_components) : conn_components[i] # {}
        /\ \A i, j \in 1..Len(conn_components) :
               i # j => conn_components[i] \cap conn_components[j] = {}
        /\ UNION Range(conn_components) = graph.live

\* connected_components returned two sets although an edge joins a node of
\* the second to a node of the first: the traversal met a discovered node.
C9_Witness ==
    /\ cc_fn = "done"
    /\ Len(conn_components) = 2
    /\ \E i \in 1..Len(graph.edges) :
           /\ graph.edges[i][1] \in conn_components[2]
           /\ graph.edges[i][2] \in conn_components[1]

(***************************************************************************)
(* C10: for every graph, directed ones included, two live nodes are in the *)
(* same set returned by connected_components exactly when a path that      *)
(* ignores edge direction joins them.                                      *)
(***************************************************************************)
\* The nodes joined to a node of S by a path that ignores direction.
RECURSIVE WeakClosure(_, _)
WeakClosure(g, S) ==
    LET next == S \cup {w \in g.live :
                          \E i \in 1..Len(g.edges) :
                              \/ g.edges[i][1] \in S /\ g.edges[i][2] = w
                              \/ g.edges[i][2] \in S /\ g.edges[i][1] = w}
    IN  IF next = S THEN S ELSE WeakClosure(g, next)

C10_WeaklyConnectedComponents ==
    cc_fn = "done" =>
        \A u, v \in graph.live :
            (\E i \in 1..Len(conn_components) : {u, v} \subseteq conn_components[i])
                <=> (v \in WeakClosure(graph, {u}))

(***************************************************************************)
(* C11: on a graph with removed nodes number_connected_components returns  *)
(* the number of connected components of the live nodes (adjacency taken   *)
(* regardless of edge direction): every seed is a live node, only live     *)
(* nodes are discovered, and for the live nodes {0, 2} left of the path    *)
(* (0,1),(1,2) without node 1 the count is 2.                              *)
(***************************************************************************)
\* The connected components of the live nodes, direction ignored.
WeakComponents(g) == {WeakClosure(g, {u}) : u \in g.live}

C11_CountsLiveComponents ==
    (cc_fn \in {"components", "done"} /\ node_count(graph) < node_bound(graph)) =>
        /\ Range(seeds.number) \subseteq graph.live
        /\ discovered \subseteq graph.live
        /\ num_components = Cardinality(WeakComponents(graph))
        /\ (graph.live = {0, 2} /\ graph.edges = <<>>) => num_components = 2

(***************************************************************************)
(* C12: betweenness_centrality takes the sequential branch exactly when    *)
(* the node count is strictly less than parallel_threshold, and the        *)
(* parallel branch otherwise, a node count equal to the threshold          *)
(* included.  In the sequential branch the sources are processed one at a  *)
(* time in enumeration order: at most one source is between the start of   *)
(* its search and the end of its merge, and every earlier source is done.  *)
(***************************************************************************)
\* The sources whose processing has begun and not ended.
InProgress == {s \in graph.live : wpc[s] \notin {"idle", "done"}}

C13_MergeIsAtomic ==
    /\ [](pc = "dispatch" =>
            /\ Cardinality(lock) <= 1
            /\ lock = {s \in graph.live : wpc[s] = "merging"})
    /\ [][(pc = "dispatch" /\ betweenness' # betweenness /\ pc' = "dispatch") =>
            \E s \in graph.live :
                /\ lock = {s}
                /\ lock' = {s}
                /\ wpc[s] = "merging"
                /\ mpos' = mpos + 1
                /\ \A t \in graph.live \ {s} : wpc'[t] = wpc[t]]_vars

\* A source is between two slot updates of its merge while another source
\* has its delta array computed and waits for the lock.
C13_Witness ==
    /\ pc = "dispatch"
    /\ \E s \in graph.live :
           /\ lock = {s}
           /\ mpos > 1
           /\ mpos <= Len(path_calc[s].verts_sorted_by_distance)
           /\ \E i \in 1..(mpos - 1) :
                  path_calc[s].verts_sorted_by_distance[i] # s
           /\ \E i \in mpos..Len(path_calc[s].verts_sorted_by_distance) :
                  path_calc[s].verts_sorted_by_distance[i] # s
           /\ \E t \in graph.live \ {s} : wpc[t] = "ready"

(***************************************************************************)
(* C14: a source holds the write lock only while it is in its fold-in,     *)
(* with its delta array already computed from its shortest-path data.  The *)
(* step that runs the search of a source and the step that computes its    *)
(* delta array are taken without the lock, before and after the step, and  *)
(* leave the shared buffer and the lock unchanged; the lock is acquired    *)
(* only by a source whose delta array is computed and is released only     *)
(* when its fold-in loop has ended.                                        *)
(***************************************************************************)
C14_NoLockDuringSearch ==
    /\ [](pc = "dispatch" =>
            \A s \in lock :
                /\ wpc[s] = "merging"
                /\ path_calc[s] = shortest_path_for_centrality(graph, s)
                /\ delta[s] = accumulate_delta(max_index, path_calc[s]))
    /\ [][pc = "dispatch" /\ pc' = "dispatch" =>
            \A s \in graph.live :
                /\ (wpc[s] \in {"idle", "searched"} /\ wpc'[s] # wpc[s]) =>
                       /\ s \notin lock
                       /\ s \notin lock'
                       /\ lock' = lock
                       /\ betweenness' = betweenness
                /\ (s \notin lock /\ s \in lock') =>
                       /\ wpc[s] = "ready"
                       /\ delta[s] = accumulate_delta(max_index, path_calc[s])
                       /\ betweenness' = betweenness
                /\ (s \in lock /\ s \notin lock') =>
                       /\ mpos > Len(path_calc[s].verts_sorted_by_distance)
                       /\ wpc'[s] = "done"]_vars

\* While one source holds the lock in the middle of its fold-in, another
\* has finished its search and not yet computed its delta array.
C14_Witness ==
    /\ pc = "dispatch"
    /\ \E t \in graph.live :
           /\ lock = {t}
           /\ mpos >= 1
           /\ \E s \in graph.live \ {t} :
                  /\ wpc[s] = "searched"
                  /\ Len(path_calc[s].verts_sorted_by_distance) > 1

(***************************************************************************)
(* The dispatch under fair scheduling.  The calling thread runs            *)
(* Initialize and Rescale; the task of each source is run to completion by *)
(* the thread that took it, and a task that waits for the write lock gets  *)
(* it once it stays free.                                                  *)
(***************************************************************************)
\* The stars with up to MaxLeaves leaves and centre 0, as undirected graphs
\* and as directed graphs with the edges pointing away from the centre.
FairGraphs ==
    UNION {{[Star(k, 0, TRUE) EXCEPT !.directed = d] : d \in BOOLEAN} : k \in 0..MaxLeaves}

SourceIndices == 0..MaxLeaves

\* The condition under which Search(s) can be taken.
SearchEnabled(s) ==
    /\ s \in graph.live
    /\ pc = "dispatch"
    /\ wpc[s] = "idle"
    /\ branch = "iter" => \A t \in graph.live : t < s => wpc[t] = "done"

\* The condition under which ComputeDelta(s) can be taken.
ComputeDeltaEnabled(s) ==
    /\ s \in graph.live
    /\ pc = "dispatch"
    /\ wpc[s] = "searched"

\* Any step of the accumulate function of source s from the lock on.
FoldInStep(s) ==
    /\ s \in graph.live
    /\ \/ Acquire(s)
       \/ MergeSource(s)
       \/ MergeSlot(s)
       \/ Release(s)

\* Weak fairness of every step.  For Search(s) and ComputeDelta(s) it is
\* written out, with the condition under which the step can be taken.
Fairness ==
    /\ WF_vars(Initialize)
    /\ WF_vars(Rescale)
    /\ \A s \in SourceIndices :
           /\ []<>(~SearchEnabled(s)) \/ []<><<s \in graph.live /\ Search(s)>>_vars
           /\ []<>(~ComputeDeltaEnabled(s))
                  \/ []<><<s \in graph.live /\ ComputeDelta(s)>>_vars
           /\ WF_vars(FoldInStep(s))

InitFair ==
    /\ graph \in FairGraphs
    /\ endpoints \in BOOLEAN
    /\ normalized = FALSE
    /\ parallel_threshold \in Thresholds
    /\ pc = "entry"
    /\ betweenness = <<>>
    /\ wpc = <<>>
    /\ path_calc = <<>>
    /\ delta = <<>>
    /\ lock = {}
    /\ mpos = 0
    /\ reordered = FALSE
    /\ branch = "none"
    /\ before = <<>>
    /\ CcUnused
    /\ RsUnused
    /\ SpUnused

SpecFair == InitFair /\ [][BcNext]_vars /\ Fairness

(***************************************************************************)
(* C15: in both branches every live node goes once through the stages      *)
(* idle, searched, ready, merging, done (one search, one delta pass, one   *)
(* acquisition of the lock, one fold-in), never back and never skipping    *)
(* one; the call returns only when every source is done; and under fair    *)
(* scheduling every call eventually returns with every source done and no  *)
(* lock held.                                                              *)
(***************************************************************************)
StageRank(stage) ==
    CASE stage = "idle" -> 0
      [] stage = "searched" -> 1
      [] stage = "ready" -> 2
      [] stage = "merging" -> 3
      [] stage = "done" -> 4

C15_EverySourceOnceAndReturns ==
    /\ [][pc = "dispatch" =>
            /\ \A s \in graph.live :
                   \/ wpc'[s] = wpc[s]
                   \/ StageRank(wpc'[s]) = StageRank(wpc[s]) + 1
            /\ Cardinality({s \in graph.live : wpc'[s] # wpc[s]}) <= 1
            /\ pc' = "returned" => \A s \in graph.live : wpc[s] = "done"]_vars
    /\ <>(/\ pc = "returned"
          /\ DOMAIN wpc = graph.live
          /\ \A s \in graph.live : wpc[s] = "done"
          /\ lock = {})

\* A parallel call on the star with MaxLeaves leaves has returned after the
\* merges were applied out of enumeration order.
C15_Witness ==
    /\ pc = "returned"
    /\ branch = "par_iter"
    /\ Cardinality(graph.live) = MaxLeaves + 1
    /\ reordered
    /\ \A s \in graph.live : wpc[s] = "done"

(***************************************************************************)
(* C16: the step that rescales is taken once per call: it is taken only    *)
(* when the merge of every source has completed and no lock is held, it    *)
(* applies _rescale once to the merged buffer, and after it neither the    *)
(* buffer nor the state of any source changes again.  Before it, the       *)
(* buffer is changed by fold-in steps only.                                *)
(***************************************************************************)
C16_RescaleOnceAfterMerges ==
    /\ [][(pc = "dispatch" /\ pc' = "returned") =>
            /\ \A s \in graph.live : wpc[s] = "done"
            /\ lock = {}
            /\ betweenness' = _rescale(betweenness, node_count(graph), normalized,
                                       graph.directed, endpoints)
            /\ wpc' = wpc]_vars
    /\ [][(pc = "dispatch" /\ pc' = "dispatch" /\ betweenness' # betweenness) =>
            lock # {} /\ lock' = lock]_vars
    /\ [][pc = "returned" =>
            /\ pc' = "returned"
            /\ betweenness' = betweenness
            /\ wpc' = wpc
            /\ lock' = lock]_vars

\* A parallel call has returned a buffer that the rescaling changed.
C16_Witness ==
    /\ pc = "returned"
    /\ branch = "par_iter"
    /\ rescale_policy(node_count(graph), normalized, graph.directed, endpoints).do_scale
    /\ Nonzero(betweenness)
    /\ \E v \in graph.live : betweenness[v] # Q(0) /\ betweenness[v][2] # 1

(***************************************************************************)
(* C17: after shortest_path_for_centrality from source s, the local map    *)
(* distance holds for every live node its shortest-path distance from s    *)
(* (0 for s, -1 for a node s does not reach), and the returned sequence    *)
(* holds exactly the nodes s reaches, each once, in non-increasing         *)
(* distance from s; this for every graph, self-loops and parallel edges    *)
(* included.                                                               *)
(***************************************************************************)
C17_SearchVisitsReachableOnce ==
    sp.pc # "call" =>
        LET s == sp.node_s
            verts == sp.data.verts_sorted_by_distance
            reach == {t \in graph.live : Dist(graph, s, t) >= 0}
        IN  /\ Range(verts) = reach
            /\ Len(verts) = Cardinality(reach)
            /\ DOMAIN sp.distance = graph.live
            /\ sp.distance[s] = 0
            /\ \A t \in graph.live : sp.distance[t] = Dist(graph, s, t)
            /\ \A i, j \in 1..Len(verts) :
                   i < j => sp.distance[verts[i]] >= sp.distance[verts[j]]

\* A search on a graph with a self-loop and a node the source does not
\* reach, that visited the source and at least one other node.
C17_Witness ==
    /\ sp.pc = "searched"
    /\ \E i \in 1..Len(graph.edges) : graph.edges[i][1] = graph.edges[i][2]
    /\ \E t \in graph.live : sp.distance[t] < 0
    /\ Len(sp.data.verts_sorted_by_distance) >= 2

(***************************************************************************)
(* C18 as stated: in the result of shortest_path_for_centrality from s,    *)
(* sigma[s] = 1 and for every node w # s reachable from s, sigma[w] is the *)
(* sum of sigma[v] over the set of predecessors of w, parallel edges       *)
(* included.                                                               *)
(***************************************************************************)
C18_SigmaIsSumOverPredecessorSet ==
    sp.pc # "call" =>
        /\ sp.data.sigma[sp.node_s] = Q(1)
        /\ \A w \in Range(sp.data.verts_sorted_by_distance) \ {sp.node_s} :
               sp.data.sigma[w] = SumFn(sp.data.sigma, Range(sp.data.predecessors[w]))

(***************************************************************************)
(* C18 amended: sigma[s] = 1 and for every node w # s reachable from s,    *)
(* sigma[w] is the sum of sigma[v] over the entries of the predecessor     *)
(* list of w, in which a predecessor joined to w by k parallel edges       *)
(* occurs k times.                                                         *)
(***************************************************************************)
RECURSIVE SumSeq(_, _)
SumSeq(f, seq) ==
    IF seq = <<>> THEN Q(0) ELSE QAdd(f[Head(seq)], SumSeq(f, Tail(seq)))

C18_SigmaIsSumOverPredecessorList ==
    sp.pc # "call" =>
        /\ sp.data.sigma[sp.node_s] = Q(1)
        /\ \A w \in Range(sp.data.verts_sorted_by_distance) \ {sp.node_s} :
               /\ sp.data.sigma[w] = SumSeq(sp.data.sigma, sp.data.predecessors[w])
               /\ \A v \in graph.live :
                      Cardinality({i \in 1..Len(sp.data.predecessors[w]) :
                                      sp.data.predecessors[w][i] = v})
                          = IF sp.distance[v] + 1 = sp.distance[w] /\ sp.distance[v] >= 0
                            THEN ArcCount(graph, v, w) ELSE 0

\* A result in which one node has the same predecessor twice, through a
\* parallel edge, and another node has two different predecessors.
C18_Witness ==
    /\ sp.pc = "searched"
    /\ \E w \in graph.live :
           Len(sp.data.predecessors[w]) > Cardinality(Range(sp.data.predecessors[w]))
    /\ \E w \in graph.live :
           /\ Cardinality(Range(sp.data.predecessors[w])) >= 2
           /\ sp.data.sigma[w] = Q(3)

(***************************************************************************)
(* C19: in every shortest-path result each entry v of the predecessor list *)
(* of a node w has distance[v] + 1 = distance[w], so no node is a          *)
(* predecessor of a node at the same distance; in the returned order every *)
(* node stands before each of its predecessors; and the delta array the    *)
(* farthest-first pass computes satisfies, with its final values,          *)
(* delta[v] = sum over the nodes w and the entries of v in the predecessor *)
(* list of w of sigma[v] * (1 + delta[w]) / sigma[w]: no delta[w] was      *)
(* added to after it was read to form the coefficient of w.                *)
(***************************************************************************)
\* The position of the visited node w in the returned order.
PositionOf(verts, w) == CHOOSE i \in 1..Len(verts) : verts[i] = w

\* The additions made to delta[v] from the coefficients of all w, each
\* coefficient taken from the final value of delta[w].
DependencySum(data, d, v) ==
    LET visited == Range(data.verts_sorted_by_distance)
        term == [w \in visited |->
                    LET k == Cardinality({i \in 1..Len(data.predecessors[w]) :
                                             data.predecessors[w][i] = v})
                    IN  QMul(Q(k), QMul(data.sigma[v],
                                        QDiv(QAdd(Q(1), d[w]), data.sigma[w])))]
    IN  SumFn(term, visited)

C19_PredecessorsOneCloser ==
    /\ sp.pc # "call" =>
           LET verts == sp.data.verts_sorted_by_distance
           IN  \A w \in graph.live :
                   \A j \in 1..Len(sp.data.predecessors[w]) :
                       LET v == sp.data.predecessors[w][j]
                       IN  /\ sp.distance[v] >= 0
                           /\ sp.distance[v] + 1 = sp.distance[w]
                           /\ sp.distance[v] # sp.distance[w]
                           /\ PositionOf(verts, w) < PositionOf(verts, v)
    /\ sp.pc = "accumulated" =>
           /\ DOMAIN sp.delta = 0..(node_bound(graph) - 1)
           /\ \A v \in DOMAIN sp.delta :
                  sp.delta[v] = IF v \in graph.live
                                THEN DependencySum(sp.data, sp.delta, v)
                                ELSE Q(0)

\* The delta pass ran on a result in which one node has two predecessors at
\* the same distance and non-integer dependencies were accumulated.
C19_Witness ==
    /\ sp.pc = "accumulated"
    /\ \E w \in graph.live :
           /\ Cardinality(Range(sp.data.predecessors[w])) >= 2
           /\ sp.distance[w] = 2
    /\ \E v \in graph.live : sp.delta[v][2] # 1

(***************************************************************************)
(* C20: compared with the buffer at the moment source s acquired the lock, *)
(* at every point of the fold-in of s every slot whose node was not        *)
(* visited from s is unchanged, in both accumulator variants; and when the *)
(* fold-in loop of the basic variant has ended the slot of s is unchanged  *)
(* and the slot of every other visited node w holds its earlier value plus *)
(* delta[w].                                                               *)
(***************************************************************************)
C20_MergeFrame ==
    \A s \in lock :
        LET visited == Range(path_calc[s].verts_sorted_by_distance)
            ended == mpos > Len(path_calc[s].verts_sorted_by_distance)
        IN  /\ DOMAIN before = DOMAIN betweenness
            /\ visited = {t \in graph.live : Dist(graph, s, t) >= 0}
            /\ \A i \in DOMAIN betweenness :
                   i \notin visited => betweenness[i] = before[i]
            /\ (~endpoints /\ ended) =>
                   /\ betweenness[s] = before[s]
                   /\ \A w \in visited \ {s} :
                          betweenness[w] = QAdd(before[w], delta[s][w])

\* The fold-in loop of the basic variant has ended for a source whose own
\* slot held a non-zero value, after adding a non-zero delta to another
\* node, on a graph with a slot that was not visited.
C20_Witness ==
    /\ ~endpoints
    /\ \E s \in lock :
           LET visited == Range(path_calc[s].verts_sorted_by_distance)
           IN  /\ mpos > Len(path_calc[s].verts_sorted_by_distance)
               /\ before[s] # Q(0)
               /\ \E w \in visited \ {s} : delta[s][w] # Q(0)
               /\ \E i \in DOMAIN betweenness : i \notin visited

(***************************************************************************)
(* C21: in the endpoints variant, compared with the buffer at the moment   *)
(* source s acquired the lock, the slot of s has gained exactly the number *)
(* of nodes reachable from s other than s once the statement for the       *)
(* source's own slot has run, and keeps that value through the fold-in     *)
(* loop; the list of visited nodes always holds s, so the count            *)
(* `len() - 1` is a non-negative number and is 0 (slot unchanged) when s   *)
(* reaches no other node; and when the fold-in loop has ended the slot of  *)
(* every other visited node w holds its earlier value plus delta[w] + 1.   *)
(***************************************************************************)
C21_EndpointsMerge ==
    endpoints =>
        \A s \in lock :
            LET verts == path_calc[s].verts_sorted_by_distance
                others == {t \in graph.live : Dist(graph, s, t) >= 0} \ {s}
                ended == mpos > Len(verts)
            IN  /\ Len(verts) >= 1
                /\ Len(verts) - 1 = Cardinality(others)
                /\ Range(verts) = others \cup {s}
                /\ mpos = 0 => betweenness[s] = before[s]
                /\ mpos >= 1 =>
                       betweenness[s] = QAdd(before[s], Q(Cardinality(others)))
                /\ (mpos >= 1 /\ others = {}) => betweenness[s] = before[s]
                /\ ended =>
                       \A w \in others :
                           betweenness[w] =
                               QAdd(QAdd(before[w], delta[s][w]), Q(1))

\* The endpoints merge of a source that reaches at least two other nodes
\* has ended, with a non-zero delta folded into another node's slot and the
\* source's own slot already non-zero when the lock was taken.
C21_Witness ==
    /\ endpoints
    /\ \E s \in lock :
           LET verts == path_calc[s].verts_sorted_by_distance
           IN  /\ mpos > Len(verts)
               /\ Len(verts) >= 3
               /\ before[s] # Q(0)
               /\ \E w \in Range(verts) \ {s} : delta[s][w] # Q(0)

\* The endpoints merge of a source that reaches no other node has ended.
C21_WitnessIsolated ==
    /\ endpoints
    /\ \E s \in lock :
           /\ mpos > Len(path_calc[s].verts_sorted_by_distance)
           /\ Len(path_calc[s].verts_sorted_by_distance) = 1
           /\ before[s] # Q(0)

=============================================================================
